---- MODULE Spec2Model ----
(***************************************************************************)
(* A model of arxiv_tracker/query.py: the compiler of arXiv search_query   *)
(* strings.  Python strings are TLA+ strings (Len, SubSeq and \o act on    *)
(* them character by character), Python lists are sequences, and an       *)
(* optional argument is None or Some(value).                               *)
(*                                                                         *)
(* The only state of the program is the interpreter's string-hash seed,    *)
(* drawn when a process starts (PYTHONHASHSEED): it decides the iteration  *)
(* order of the set _expand_variants builds.  The remaining variables      *)
(* record the last call (function, arguments, returned value) and the      *)
(* build_search_query call an observer remembers from before it.           *)
(***************************************************************************)
EXTENDS Integers, Sequences, FiniteSets, TLC

VARIABLES hashseed, call, prev

vars == <<hashseed, call, prev>>

-----------------------------------------------------------------------------
(* Bounds of the model.                                                    *)

\* Hash seeds a process may start with: 0 .. NumSeeds - 1.
NumSeeds == 3

\* Longest list passed as keywords.
MaxList == 2

\* Longest list passed as exclude_keywords.
MaxExclude == 1

\* Longest term over TermAlphabet passed to _quote and _expand_variants.
MaxTermLen == 3

-----------------------------------------------------------------------------
(* Python values.                                                          *)

None == [isNone |-> TRUE]

Some(x) == [isNone |-> FALSE, v |-> x]

\* `x or default` for an optional string or list: None and the empty value
\* are falsy.
OrDefault(x, empty, default) ==
    IF x.isNone THEN default
    ELSE IF x.v = empty THEN default
    ELSE x.v

-----------------------------------------------------------------------------
(* String primitives of the Python runtime.                                *)

Char(s, i) == SubSeq(s, i, i)

\* str.strip() and the regex class \s: the whitespace TLA+ can write.
Whitespace == {" ", "\t", "\n", "\r", "\f"}

IsSpace(c) == c \in Whitespace

\* str.strip() with no argument.
Strip(s) ==
    IF \A i \in 1..Len(s) : IsSpace(Char(s, i)) THEN ""
    ELSE LET lo == CHOOSE i \in 1..Len(s) :
                       /\ ~IsSpace(Char(s, i))
                       /\ \A j \in 1..(i - 1) : IsSpace(Char(s, j))
             hi == CHOOSE i \in 1..Len(s) :
                       /\ ~IsSpace(Char(s, i))
                       /\ \A j \in (i + 1)..Len(s) : IsSpace(Char(s, j))
         IN  SubSeq(s, lo, hi)

\* `sub in s`.
Contains(s, sub) ==
    \E i \in 1..(Len(s) - Len(sub) + 1) : SubSeq(s, i, i + Len(sub) - 1) = sub

\* str.replace(a, b) for one-character a and b.
RECURSIVE Replace(_, _, _)
Replace(s, a, b) ==
    IF Len(s) = 0 THEN ""
    ELSE (IF Char(s, 1) = a THEN b ELSE Char(s, 1))
         \o Replace(SubSeq(s, 2, Len(s)), a, b)

LowerAlpha == "abcdefghijklmnopqrstuvwxyz"

UpperAlpha == "ABCDEFGHIJKLMNOPQRSTUVWXYZ"

\* The letters of `from`, each mapped to the letter of `to` in its place.
CaseTable(from, to) ==
    [c \in {Char(from, i) : i \in 1..Len(from)} |->
        Char(to, CHOOSE i \in 1..Len(from) : Char(from, i) = c)]

ToUpper == CaseTable(LowerAlpha, UpperAlpha)

ToLower == CaseTable(UpperAlpha, LowerAlpha)

MapChar(c, table) == IF c \in DOMAIN table THEN table[c] ELSE c

RECURSIVE MapStr(_, _)
MapStr(s, table) ==
    IF Len(s) = 0 THEN ""
    ELSE MapChar(Char(s, 1), table) \o MapStr(SubSeq(s, 2, Len(s)), table)

\* str.upper() and str.lower() on ASCII text.
Upper(s) == MapStr(s, ToUpper)

Lower(s) == MapStr(s, ToLower)

\* sep.join(parts).
RECURSIVE Join(_, _)
Join(parts, sep) ==
    IF Len(parts) = 0 THEN ""
    ELSE IF Len(parts) = 1 THEN parts[1]
    ELSE parts[1] \o sep \o Join(Tail(parts), sep)

Range(seq) == {seq[i] : i \in 1..Len(seq)}

\* set.add: `ins` lists the distinct elements in insertion order.
SetAdd(ins, x) == IF x \in Range(ins) THEN ins ELSE Append(ins, x)

RemoveAt(seq, i) == SubSeq(seq, 1, i - 1) \o SubSeq(seq, i + 1, Len(seq))

\* Iterating a set of strings: the order is that of the hash table, which
\* the process's hash seed and the insertions decide.  The language fixes
\* no order; here the seed picks one permutation of the elements (read in
\* the factorial number system), the same one every time in one process.
RECURSIVE Permute(_, _)
Permute(seq, n) ==
    IF Len(seq) = 0 THEN <<>>
    ELSE LET i == (n % Len(seq)) + 1
         IN  <<seq[i]>> \o Permute(RemoveAt(seq, i), n \div Len(seq))

SetIter(ins) == Permute(ins, hashseed)

\* list.sort is stable: insert x after every element at least as long.
RECURSIVE InsertByLenDesc(_, _)
InsertByLenDesc(sorted, x) ==
    IF Len(sorted) = 0 THEN <<x>>
    ELSE IF Len(sorted[1]) >= Len(x)
         THEN <<sorted[1]>> \o InsertByLenDesc(Tail(sorted), x)
         ELSE <<x>> \o sorted

\* sorted(it, key=len, reverse=True): stable, so equally long elements keep
\* the order the iteration gave them.
RECURSIVE SortedByLenDesc(_)
SortedByLenDesc(it) ==
    IF Len(it) = 0 THEN <<>>
    ELSE InsertByLenDesc(SortedByLenDesc(SubSeq(it, 1, Len(it) - 1)), it[Len(it)])

-----------------------------------------------------------------------------
(* query.py                                                                *)

FIELDS == <<"ti", "abs", "co">>

\* A slip in the character class: r'\s', the hyphen left out.
HasSpaceOrHyphen_SpaceOnly(t) ==
    \E i \in 1..Len(t) : IsSpace(Char(t, i))

\* re.search(r'[\s-]', t)
HasSpaceOrHyphen(t) ==
    \E i \in 1..Len(t) : IsSpace(Char(t, i)) \/ Char(t, i) = "-"

\* A slip: the term is trimmed and never quoted.
_quote_NeverQuotes(term) == Strip(term)

_quote(term) ==
    LET t == Strip(term)
    IN  IF HasSpaceOrHyphen(t) THEN "\"" \o t \o "\"" ELSE t

_field_or(fields, term) ==
    LET q == _quote(term)
    IN  "(" \o Join([i \in 1..Len(fields) |-> fields[i] \o ":" \o q], " OR ") \o ")"

\* A slip: `elif "-" in k`, so a keyword with a space never gets its
\* hyphens replaced.
VariantSet_ElseIf(kw) ==
    LET k    == Strip(kw)
        out1 == <<k>>
    IN  IF Contains(k, " ") THEN SetAdd(out1, Replace(k, " ", "-"))
        ELSE IF Contains(k, "-") THEN SetAdd(out1, Replace(k, "-", " "))
        ELSE out1

\* The set `out`, as its elements in insertion order.
VariantSet(kw) ==
    LET k    == Strip(kw)
        out1 == <<k>>
        out2 == IF Contains(k, " ") THEN SetAdd(out1, Replace(k, " ", "-")) ELSE out1
        out3 == IF Contains(k, "-") THEN SetAdd(out2, Replace(k, "-", " ")) ELSE out2
    IN  out3

_expand_variants(kw) == SortedByLenDesc(SetIter(VariantSet(kw)))

ov_terms ==
    <<"open vocabulary", "open-vocabulary", "open-vocabulary segmentation",
      "open vocabulary segmentation">>

seg_terms == <<"segmentation", "image segmentation">>

\* A slip: `or "segmentation" in low`.
IsOpenVocabSegmentation_Or(kw) ==
    LET low == Lower(kw)
    IN  \/ Contains(low, "open vocabulary") \/ Contains(low, "open-vocabulary")
        \/ Contains(low, "segmentation")

\* The condition of the synonym clause.
IsOpenVocabSegmentation(kw) ==
    LET low == Lower(kw)
    IN  /\ Contains(low, "open vocabulary") \/ Contains(low, "open-vocabulary")
        /\ Contains(low, "segmentation")

FieldOrAll(terms) == [i \in 1..Len(terms) |-> _field_or(FIELDS, terms[i])]

SynonymClause ==
    LET ov_or  == "(" \o Join(FieldOrAll(ov_terms), " OR ") \o ")"
        seg_or == "(" \o Join(FieldOrAll(seg_terms), " OR ") \o ")"
    IN  "(" \o ov_or \o " AND " \o seg_or \o ")"

_kw_group(kw) ==
    LET variants == _expand_variants(kw)
        parts1   == FieldOrAll(variants)
        parts    == IF IsOpenVocabSegmentation(kw)
                    THEN Append(parts1, SynonymClause)
                    ELSE parts1
    IN  "(" \o Join(parts, " OR ") \o ")"

\* A slip: `if x`, so a whitespace-only entry is kept, trimmed to "".
RECURSIVE StripAll_KeepBlank(_)
StripAll_KeepBlank(xs) ==
    IF Len(xs) = 0 THEN <<>>
    ELSE (IF xs[1] # "" THEN <<Strip(xs[1])>> ELSE <<>>)
         \o StripAll_KeepBlank(Tail(xs))

\* [x.strip() for x in (xs or []) if x and x.strip()]
RECURSIVE StripAll(_)
StripAll(xs) ==
    IF Len(xs) = 0 THEN <<>>
    ELSE (IF xs[1] # "" /\ Strip(xs[1]) # "" THEN <<Strip(xs[1])>> ELSE <<>>)
         \o StripAll(Tail(xs))

Normalize(xs) == StripAll(OrDefault(xs, <<>>, <<>>))

\* A slip: the comparison without .upper().
LogicOp_CaseSensitive(logic) ==
    IF OrDefault(logic, "", "AND") = "AND" THEN "AND" ELSE "OR"

\* A slip: `(logic or "").upper()`, the default lost.
LogicOp_NoDefault(logic) ==
    IF Upper(OrDefault(logic, "", "")) = "AND" THEN "AND" ELSE "OR"

\* "AND" if (logic or "AND").upper() == "AND" else "OR"
LogicOp(logic) == IF Upper(OrDefault(logic, "", "AND")) = "AND" THEN "AND" ELSE "OR"

KwGroupAll(ks) == [i \in 1..Len(ks) |-> _kw_group(ks[i])]

\* A slip: the main query not parenthesized before ANDNOT.
WithExclusion_NoParentheses(main_query, exclude_q) ==
    IF exclude_q # ""
    THEN main_query \o " ANDNOT " \o exclude_q
    ELSE main_query

\* `if exclude_q: ... else: return main_query`
WithExclusion(main_query, exclude_q) ==
    IF exclude_q # ""
    THEN "(" \o main_query \o ") ANDNOT " \o exclude_q
    ELSE main_query

build_search_query(categories, keywords, logic, exclude_keywords) ==
    LET cats         == Normalize(categories)
        keys         == Normalize(keywords)
        exclude_keys == Normalize(exclude_keywords)
        cat_q == IF cats # <<>>
                 THEN "(" \o Join([i \in 1..Len(cats) |-> "cat:" \o cats[i]], " OR ") \o ")"
                 ELSE ""
        key_q == IF keys # <<>>
                 THEN "(" \o Join(KwGroupAll(keys), " OR ") \o ")"
                 ELSE ""
        exclude_q == IF exclude_keys # <<>>
                     THEN "(" \o Join(KwGroupAll(exclude_keys), " OR ") \o ")"
                     ELSE ""
        main_query ==
            IF cat_q # "" /\ key_q # ""
            THEN cat_q \o " " \o LogicOp(logic) \o " " \o key_q
            ELSE IF cat_q # "" THEN cat_q
            ELSE IF key_q # "" THEN key_q
            ELSE "all:*"
    IN  WithExclusion(main_query, exclude_q)

-----------------------------------------------------------------------------
(* The inputs the calls are made with.                                     *)

Seeds == 0..(NumSeeds - 1)

\* A letter, the space, the hyphen and a whitespace that is not the space.
TermAlphabet == {"a", " ", "-", "\t"}

RECURSIVE StringsUpTo(_)
StringsUpTo(n) ==
    IF n = 0 THEN {""}
    ELSE LET shorter == StringsUpTo(n - 1)
         IN  shorter \cup {s \o c : s \in shorter, c \in TermAlphabet}

Terms == StringsUpTo(MaxTermLen)

\* Keywords as users write them, with and without the open-vocabulary
\* segmentation topic.
Keywords ==
    {"transformer", "nerf", "segmentation", "image segmentation",
     "open vocabulary", "open-vocabulary", "vocabulary segmentation",
     "open vocabulary segmentation", "open-vocabulary segmentation",
     "Open-Vocabulary Segmentation", " open vocabulary segmentation ",
     "open  vocabulary segmentation", "segmentation with open vocabulary",
     "open-vocabulary semantic segmentation", "a b-c"}

RECURSIVE ListsUpTo(_, _)
ListsUpTo(pool, n) ==
    IF n = 0 THEN {<<>>}
    ELSE LET shorter == ListsUpTo(pool, n - 1)
         IN  shorter \cup {Append(l, x) : l \in shorter, x \in pool}

Optional(S) == {None} \cup {Some(x) : x \in S}

KeywordPool == {"nerf", "open-vocabulary segmentation", " "}

ExcludePool == {"a b", " "}

\* Category lists: absent, empty, blank entries only, one code, several
\* codes, codes with a hyphen or an inner space, codes to trim.
CategoryArgs ==
    {None, Some(<<>>), Some(<<" ", "">>), Some(<<"cs.CV">>),
     Some(<<"cs.CV", "hep-th">>), Some(<<" cs.LG ", "", "cs CV">>)}

KeywordArgs == Optional(ListsUpTo(KeywordPool, MaxList))

ExcludeArgs == Optional(ListsUpTo(ExcludePool, MaxExclude))

LogicArgs == Optional({"", "AND", "and", "OR", "or", "xor"})

\* The inputs an observer repeats from one run of the program to the next.
RepeatedCategoryArgs == {None, Some(<<"cs.CV">>), Some(<<"hep-th", "cs CV">>)}

RepeatedKeywordArgs == {Some(<<>>), Some(<<"nerf">>), Some(<<"a-b">>)}

RepeatedLogicArgs == {Some("AND"), Some("OR")}

RepeatedExcludeArgs == {None, Some(<<"open vocabulary segmentation">>)}

-----------------------------------------------------------------------------
(* The state machine: a process starts with a hash seed and serves calls.  *)

NoCall == [fn |-> "none"]

BuildCall(c, k, l, e) ==
    [fn |-> "build_search_query", categories |-> c, keywords |-> k, logic |-> l,
     exclude_keywords |-> e, ret |-> build_search_query(c, k, l, e)]

Init ==
    /\ hashseed \in Seeds
    /\ call = NoCall
    /\ prev = NoCall

CallQuote ==
    /\ call = NoCall
    /\ \E term \in Terms \cup Keywords :
           call' = [fn |-> "_quote", term |-> term, ret |-> _quote(term)]
    /\ UNCHANGED <<hashseed, prev>>

CallExpandVariants ==
    /\ call = NoCall
    /\ \E kw \in Terms \cup Keywords :
           call' = [fn |-> "_expand_variants", kw |-> kw, ret |-> _expand_variants(kw)]
    /\ UNCHANGED <<hashseed, prev>>

CallKwGroup ==
    /\ call = NoCall
    /\ \E kw \in Terms \cup Keywords :
           call' = [fn |-> "_kw_group", kw |-> kw, ret |-> _kw_group(kw)]
    /\ UNCHANGED <<hashseed, prev>>

CallBuildSearchQuery ==
    /\ call = NoCall
    /\ \E c \in CategoryArgs, k \in KeywordArgs, l \in LogicArgs, e \in ExcludeArgs :
           call' = BuildCall(c, k, l, e)
    /\ UNCHANGED <<hashseed, prev>>

\* The caller takes the returned value; the process is ready for a call.
Return ==
    /\ call # NoCall
    /\ call' = NoCall
    /\ UNCHANGED <<hashseed, prev>>

\* The process ends and a new one starts, with a hash seed of its own.
Restart ==
    /\ \E s \in Seeds : hashseed' = s
    /\ call' = NoCall
    /\ UNCHANGED prev

Next ==
    \/ CallQuote
    \/ CallExpandVariants
    \/ CallKwGroup
    \/ CallBuildSearchQuery
    \/ Return
    \/ Restart

Spec == Init /\ [][Next]_vars

\* An observer compiles a query, keeps what was returned, and compiles the
\* same or another query again, in the same process or in a later one.
RepeatBuildSearchQuery ==
    /\ call = NoCall
    /\ \E c \in RepeatedCategoryArgs, k \in RepeatedKeywordArgs,
          l \in RepeatedLogicArgs, e \in RepeatedExcludeArgs :
           call' = BuildCall(c, k, l, e)
    /\ UNCHANGED <<hashseed, prev>>

Remember ==
    /\ call.fn = "build_search_query"
    /\ prev # call
    /\ prev' = call
    /\ UNCHANGED <<hashseed, call>>

NextRuns ==
    \/ RepeatBuildSearchQuery
    \/ Remember
    \/ Return
    \/ Restart

SpecRuns == Init /\ [][NextRuns]_vars

-----------------------------------------------------------------------------
(* Vocabulary of the properties.                                           *)

IsQuoteCall == call.fn = "_quote"

IsExpandCall == call.fn = "_expand_variants"

IsKwGroupCall == call.fn = "_kw_group"

IsBuildCall == call.fn = "build_search_query"

HasChar(s, c) == \E i \in 1..Len(s) : Char(s, i) = c

HasWhitespace(s) == \E i \in 1..Len(s) : Char(s, i) \in Whitespace

IsTrimmed(s) ==
    Len(s) > 0 => Char(s, 1) \notin Whitespace /\ Char(s, Len(s)) \notin Whitespace

\* An optional list in which an entry remains once the empty and the
\* whitespace-only entries are dropped.
Remains(xs) ==
    /\ ~xs.isNone
    /\ \E i \in 1..Len(xs.v) :
           \E j \in 1..Len(xs.v[i]) : Char(xs.v[i], j) \notin Whitespace

\* v is s with every character a replaced by b.
IsSwap(v, s, a, b) ==
    /\ Len(v) = Len(s)
    /\ \A i \in 1..Len(s) : Char(v, i) = (IF Char(s, i) = a THEN b ELSE Char(s, i))

\* The field fan-out of an already quoted term, written out.
Fan(q) == "(ti:" \o q \o " OR abs:" \o q \o " OR co:" \o q \o ")"

\* The characters of the inputs in code point order.
AsciiOrder ==
    "\t\n\f\r \"()*-.:ABCDEFGHIJKLMNOPQRSTUVWXYZabcdefghijklmnopqrstuvwxyz"

CodeRank(c) == CHOOSE i \in 1..Len(AsciiOrder) : Char(AsciiOrder, i) = c

\* a < b in Python's string order.
LexLess(a, b) ==
    \E i \in 1..(Len(b)) :
        /\ SubSeq(a, 1, i - 1) = SubSeq(b, 1, i - 1)
        /\ \/ Len(a) = i - 1
           \/ Len(a) >= i /\ CodeRank(Char(a, i)) < CodeRank(Char(b, i))

-----------------------------------------------------------------------------
(* _quote                                                                  *)

\* C8 as stated: _quote returns a non-empty trimmed term without whitespace
\* or hyphen unchanged, and returns the term between double quotes for every
\* term that contains a space or a hyphen.
C8_QuoteAsStated ==
    IsQuoteCall =>
        /\ (/\ call.term # ""
            /\ IsTrimmed(call.term)
            /\ ~HasWhitespace(call.term)
            /\ ~HasChar(call.term, "-"))
           => call.ret = call.term
        /\ (HasChar(call.term, " ") \/ HasChar(call.term, "-"))
           => call.ret = "\"" \o call.term \o "\""

\* C8 amended: with t the term stripped of its leading and trailing
\* whitespace, _quote returns t unchanged when t holds no whitespace and no
\* hyphen, and t between double quotes when t holds whitespace or a hyphen;
\* a trimmed term is its own t.
C8_QuoteOfTrimmedForm ==
    IsQuoteCall =>
        LET t == Strip(call.term)
        IN  /\ IsTrimmed(call.term) => t = call.term
            /\ (~HasWhitespace(t) /\ ~HasChar(t, "-")) => call.ret = t
            /\ (HasWhitespace(t) \/ HasChar(t, "-")) => call.ret = "\"" \o t \o "\""

\* A trimmed term with an inner hyphen came back between quotes.
C8_Witness ==
    /\ IsQuoteCall
    /\ call.term = "a-a"
    /\ call.ret = "\"a-a\""

-----------------------------------------------------------------------------
(* _expand_variants                                                        *)

\* C5: the variants hold no duplicate and are exactly the trimmed keyword k,
\* k with its spaces turned into hyphens when it has a space, and k with its
\* hyphens turned into spaces when it has a hyphen: 1, 2 or 3 variants.
C5_VariantsExact ==
    IsExpandCall =>
        LET k        == Strip(call.kw)
            spaced   == HasChar(k, " ")
            hyphened == HasChar(k, "-")
            vs       == call.ret
        IN  /\ \A i, j \in 1..Len(vs) : i # j => vs[i] # vs[j]
            /\ \E i \in 1..Len(vs) : vs[i] = k
            /\ spaced => \E i \in 1..Len(vs) : IsSwap(vs[i], k, " ", "-")
            /\ hyphened => \E i \in 1..Len(vs) : IsSwap(vs[i], k, "-", " ")
            /\ \A i \in 1..Len(vs) :
                   \/ vs[i] = k
                   \/ spaced /\ IsSwap(vs[i], k, " ", "-")
                   \/ hyphened /\ IsSwap(vs[i], k, "-", " ")
            /\ Len(vs) = 1 + (IF spaced THEN 1 ELSE 0) + (IF hyphened THEN 1 ELSE 0)

\* A keyword with a space and a hyphen came back as three variants.
C5_Witness ==
    /\ IsExpandCall
    /\ call.kw = "a b-c"
    /\ Len(call.ret) = 3

\* C6 as stated: the variants come back longest first, and equally long
\* variants in ascending string order, whatever order the set iterates in.
C6_LongestFirstThenAscending ==
    IsExpandCall =>
        \A i \in 1..(Len(call.ret) - 1) :
            \/ Len(call.ret[i]) > Len(call.ret[i + 1])
            \/ /\ Len(call.ret[i]) = Len(call.ret[i + 1])
               /\ LexLess(call.ret[i], call.ret[i + 1])

-----------------------------------------------------------------------------
(* _kw_group                                                               *)

\* The synonym disjunct, written out.
SynonymDisjunct ==
    "((" \o Fan("\"open vocabulary\"") \o " OR " \o Fan("\"open-vocabulary\"")
    \o " OR " \o Fan("\"open-vocabulary segmentation\"")
    \o " OR " \o Fan("\"open vocabulary segmentation\"")
    \o ") AND (" \o Fan("segmentation") \o " OR " \o Fan("\"image segmentation\"")
    \o "))"

\* C4: the group is the parenthesized OR of the field fan-outs of the
\* variants, in variant order, followed by the synonym disjunct as the last
\* disjunct exactly when the lowercased keyword contains "open vocabulary"
\* or "open-vocabulary" and also contains "segmentation".
C4_SynonymClauseIff ==
    IsKwGroupCall =>
        LET low      == Lower(call.kw)
            variants == _expand_variants(call.kw)
            fans     == Join([i \in 1..Len(variants) |-> Fan(_quote(variants[i]))], " OR ")
            trigger  == /\ Contains(low, "open vocabulary") \/ Contains(low, "open-vocabulary")
                        /\ Contains(low, "segmentation")
        IN  call.ret = "(" \o fans \o (IF trigger THEN " OR " \o SynonymDisjunct ELSE "") \o ")"

\* A keyword of the topic, written with capitals, got the synonym disjunct.
C4_Witness ==
    /\ IsKwGroupCall
    /\ call.kw = "Open-Vocabulary Segmentation"
    /\ Contains(call.ret, ") AND (")

-----------------------------------------------------------------------------
(* build_search_query                                                      *)

\* What the same process returns for other arguments.
CategoryGroup == build_search_query(call.categories, None, None, None)

KeywordGroup == build_search_query(None, call.keywords, None, None)

ExclusionGroup == build_search_query(None, call.exclude_keywords, None, None)

MainQuery == build_search_query(call.categories, call.keywords, call.logic, None)

\* The category group and the keyword group joined by op, with the
\* exclusion of the call.
Joined(op) ==
    LET main == CategoryGroup \o " " \o op \o " " \o KeywordGroup
    IN  IF Remains(call.exclude_keywords)
        THEN "(" \o main \o ") ANDNOT " \o ExclusionGroup
        ELSE main

BothRemain == Remains(call.categories) /\ Remains(call.keywords)

LogicAbsent == call.logic.isNone \/ call.logic = Some("")

LogicIsAnd == ~call.logic.isNone /\ Lower(call.logic.v) = "and"

LogicIsOr == ~call.logic.isNone /\ Lower(call.logic.v) = "or"

\* C1: with an exclusion keyword remaining, the result is "(" + M +
\* ") ANDNOT " + E, M being the result for the same categories, keywords and
\* logic without exclusion keywords and E the OR-group of the exclusion list
\* passed as inclusion keywords; with none remaining the result is M.
C1_ExclusionWrapsMain ==
    IsBuildCall =>
        IF Remains(call.exclude_keywords)
        THEN call.ret = "(" \o MainQuery \o ") ANDNOT " \o ExclusionGroup
        ELSE call.ret = MainQuery

\* Categories, keywords and an exclusion keyword remained, and the result
\* is the parenthesized main query with the exclusion appended.
C1_Witness ==
    /\ IsBuildCall
    /\ BothRemain
    /\ Remains(call.exclude_keywords)
    /\ Contains(call.ret, "))) ANDNOT (((ti:\"a")

\* C2 as stated: with a category and a keyword remaining, the groups are
\* joined by AND exactly when the logic string equals "AND" ignoring case,
\* and by OR for every other logic string.
C2_AndOnlyForTheWordAnd ==
    (IsBuildCall /\ BothRemain /\ ~call.logic.isNone) =>
        call.ret = Joined(IF LogicIsAnd THEN "AND" ELSE "OR")

\* C2 amended: the groups are joined by AND exactly when the logic argument
\* is None, is the empty string or equals "AND" ignoring case, and by OR for
\* every other logic string; "or" and "OR" give the same output.
C2_AndForTheWordAndOrNoLogic ==
    (IsBuildCall /\ BothRemain) =>
        /\ call.ret = Joined(IF LogicAbsent \/ LogicIsAnd THEN "AND" ELSE "OR")
        /\ call.logic = Some("or") =>
               call.ret = build_search_query(call.categories, call.keywords,
                                             Some("OR"), call.exclude_keywords)
        /\ call.logic = Some("OR") =>
               call.ret = build_search_query(call.categories, call.keywords,
                                             Some("or"), call.exclude_keywords)

\* Lowercase "and" joined a category group and a keyword group with AND.
C2_Witness ==
    /\ IsBuildCall
    /\ BothRemain
    /\ call.logic = Some("and")
    /\ Contains(call.ret, "(cat:cs.CV OR cat:hep-th) AND (((ti:")

\* C3: with nothing remaining in the categories, the keywords and the
\* exclusion keywords, the call returns "all:*", whatever the logic.
C3_EmptyRequestMatchesAll ==
    (/\ IsBuildCall
     /\ ~Remains(call.categories)
     /\ ~Remains(call.keywords)
     /\ ~Remains(call.exclude_keywords))
    => call.ret = "all:*"

\* Blank entries only, no logic: the call returned the fallback.
C3_Witness ==
    /\ IsBuildCall
    /\ call.categories = Some(<<" ", "">>)
    /\ call.keywords = Some(<<" ">>)
    /\ call.exclude_keywords = Some(<<" ">>)
    /\ call.logic = None
    /\ call.ret = "all:*"

\* C10 as stated: with a category and a keyword remaining, an absent logic
\* (None, the empty string) and an unrecognized logic string both join the
\* groups with AND.
C10_AndWhenAbsentOrUnrecognized ==
    (IsBuildCall /\ BothRemain /\ ~LogicIsAnd /\ ~LogicIsOr) =>
        call.ret = Joined("AND")

\* C10 amended: an absent logic (None, the empty string) joins the groups
\* with AND; an unrecognized logic string joins them with OR.
C10_AndWhenAbsentOrWhenUnrecognized ==
    (IsBuildCall /\ BothRemain /\ ~LogicIsAnd /\ ~LogicIsOr) =>
        call.ret = Joined(IF LogicAbsent THEN "AND" ELSE "OR")

\* No logic was given and the groups were joined with AND.
C10_Witness ==
    /\ IsBuildCall
    /\ BothRemain
    /\ call.logic = None
    /\ Contains(call.ret, "(cat:cs.CV) AND (((ti:nerf OR ")

\* C7 as stated: two calls with the same four arguments, in one run of the
\* program or in two, return the same string.
C7_SameArgumentsSameResult ==
    (/\ IsBuildCall
     /\ prev.fn = "build_search_query"
     /\ prev.categories = call.categories
     /\ prev.keywords = call.keywords
     /\ prev.logic = call.logic
     /\ prev.exclude_keywords = call.exclude_keywords)
    => prev.ret = call.ret

-----------------------------------------------------------------------------
(* The field:value pairs of a returned query.                              *)

\* s reads w from position i on.
ReadsAt(s, i, w) ==
    /\ i + Len(w) - 1 <= Len(s)
    /\ SubSeq(s, i, i + Len(w) - 1) = w

\* A pair of field f starts at position i of s: f and a colon, at the start
\* of a group or after a blank.
PairAt(s, f, i) ==
    /\ ReadsAt(s, i, f \o ":")
    /\ i > 1
    /\ Char(s, i - 1) \in {"(", " "}

\* The value that starts at position j of s without a quote: it runs to the
\* next " OR " or closing parenthesis, which is where the pair ends.
UnquotedValue(s, j) ==
    LET ends == {e \in j..Len(s) : Char(s, e) = ")" \/ ReadsAt(s, e, " OR ")}
        end  == CHOOSE e \in ends : \A o \in ends : e <= o
    IN  SubSeq(s, j, end - 1)

\* Every pair of the fields in s whose value holds whitespace or a hyphen
\* has the value between double quotes.
ValuesQuoted(s, fields) ==
    \A f \in fields : \A i \in 1..Len(s) :
        PairAt(s, f, i) =>
            LET j == i + Len(f) + 1
            IN  \/ /\ Char(s, j) = "\""
                   /\ \E e \in (j + 1)..Len(s) : Char(s, e) = "\""
                \/ /\ Char(s, j) # "\""
                   /\ ~HasWhitespace(UnquotedValue(s, j))
                   /\ ~HasChar(UnquotedValue(s, j), "-")

\* C9 as stated: in every returned query, every field:value pair of the
\* fields ti, abs, co and cat whose value holds whitespace or a hyphen has
\* the value between double quotes.
C9_EveryValueQuoted ==
    IsBuildCall => ValuesQuoted(call.ret, {"ti", "abs", "co", "cat"})

\* C9 amended: every pair of the fields ti, abs and co whose value holds
\* whitespace or a hyphen has the value between double quotes; a category
\* code is emitted as cat:C, C trimmed and never quoted, also when C holds
\* a hyphen or inner whitespace.
C9_KeywordValuesQuoted ==
    IsBuildCall =>
        /\ ValuesQuoted(call.ret, {"ti", "abs", "co"})
        /\ ~call.categories.isNone =>
               \A i \in 1..Len(call.categories.v) :
                   LET c == Strip(call.categories.v[i])
                   IN  c # "" =>
                           \E k \in 1..Len(call.ret) :
                               /\ PairAt(call.ret, "cat", k)
                               /\ Char(call.ret, k + 4) # "\""
                               /\ UnquotedValue(call.ret, k + 4) = c

\* A query with a hyphenated category and a hyphenated keyword: the keyword
\* is quoted in its pairs, the category is not.
C9_Witness ==
    /\ IsBuildCall
    /\ Contains(call.ret, "(cat:hep-th OR cat:cs CV)")
    /\ Contains(call.ret, "abs:\"a-b\"")

====
